---- MODULE Spec2Model ----
(***************************************************************************)
(* K4ADeviceDockControl (examples/k4aviewer/k4adevicedockcontrol.cpp).     *)
(*                                                                         *)
(* One dock control bound to one device.  The program state is the dock    *)
(* control's members, the device and microphone it drives, the saved       *)
(* configuration of the settings manager and the ImGui tree-node state.    *)
(* One call of Show() (one UI frame) is one action; the user's input and   *)
(* the answers of the hardware in that frame are the action's inputs.      *)
(* `log' records, in order, the calls the last action made on the device,  *)
(* the microphone, the data sources and the error manager.                 *)
(***************************************************************************)
EXTENDS Integers, Sequences, FiniteSets, TLC

VARIABLES
    m_pendingDeviceConfiguration, \* K4ADeviceConfiguration edited by the widgets
    savedConfiguration,           \* K4AViewerSettingsManager's saved configuration
    m_colorSettingsCache,         \* control -> [Mode, Value]
    m_cameraTimeoutCounter,
    m_imuTimeoutCounter,
    m_paused,
    m_firstRun,
    m_currentViewType,
    m_syncInConnected,
    m_syncOutConnected,
    m_device,                     \* the K4ADevice: started flags, configuration, colour hardware
    m_microphone,                 \* [present, started, status]
    treeOpen,                     \* ImGui's stored open state of each tree node
    docked,                       \* the control is still in the window manager
    lastRead,                     \* control -> the last setting GetColorControl returned
    faults,                       \* number of colour-hardware faults so far
    log                           \* calls made by the last action, in order

vars == << m_pendingDeviceConfiguration, savedConfiguration, m_colorSettingsCache,
           m_cameraTimeoutCounter, m_imuTimeoutCounter, m_paused, m_firstRun,
           m_currentViewType, m_syncInConnected, m_syncOutConnected, m_device,
           m_microphone, treeOpen, docked, lastRead, faults, log >>

(***************************************************************************)
(* Bounds of the model.                                                    *)
(***************************************************************************)
NumPayloads == 2        \* distinct captures / IMU samples the device can deliver
MaxImuSamples == 2      \* samples queued in the IMU between two frames
MaxJointTimeouts == 1   \* both sensors are deep in a timeout run at once only up to here
MaxFaults == 2          \* colour-hardware faults (failed write, failed read, override) per run
NumEditable == 2        \* colour controls whose widgets the user operates

(***************************************************************************)
(* Program constants.                                                      *)
(***************************************************************************)
MaxTimeoutCount == 120

Payloads == 1..NumPayloads

(***************************************************************************)
(* The call log.                                                           *)
(***************************************************************************)
\* An entry: the call, its receiver or subject, its arguments (mode, val) and,
\* where the code reads it, its result.
EvR(op, who, mode, val, res) ==
    [op |-> op, who |-> who, mode |-> mode, val |-> val, res |-> res]
Ev(op, who, mode, val) == EvR(op, who, mode, val, "")

Events(s, op) == { i \in 1..Len(s) : s[i].op = op }
EventsOf(s, op, who) == { i \in 1..Len(s) : s[i].op = op /\ s[i].who = who }

(***************************************************************************)
(* The program state as one record, so that the steps of a handler can be  *)
(* composed in the order the code runs them.                               *)
(***************************************************************************)
Cur ==
    [ cfg |-> m_pendingDeviceConfiguration, saved |-> savedConfiguration,
      cache |-> m_colorSettingsCache,
      camCnt |-> m_cameraTimeoutCounter, imuCnt |-> m_imuTimeoutCounter,
      paused |-> m_paused, firstRun |-> m_firstRun, view |-> m_currentViewType,
      syncIn |-> m_syncInConnected, syncOut |-> m_syncOutConnected,
      dev |-> m_device, mic |-> m_microphone, tree |-> treeOpen, docked |-> docked,
      lastRead |-> lastRead, faults |-> faults, log |-> log ]

Commit(st) ==
    /\ m_pendingDeviceConfiguration' = st.cfg
    /\ savedConfiguration' = st.saved
    /\ m_colorSettingsCache' = st.cache
    /\ m_cameraTimeoutCounter' = st.camCnt
    /\ m_imuTimeoutCounter' = st.imuCnt
    /\ m_paused' = st.paused
    /\ m_firstRun' = st.firstRun
    /\ m_currentViewType' = st.view
    /\ m_syncInConnected' = st.syncIn
    /\ m_syncOutConnected' = st.syncOut
    /\ m_device' = st.dev
    /\ m_microphone' = st.mic
    /\ treeOpen' = st.tree
    /\ docked' = st.docked
    /\ lastRead' = st.lastRead
    /\ faults' = st.faults
    /\ log' = st.log

Logged(st, e) == [st EXCEPT !.log = Append(@, e)]

\* TRUE once st is computed: a handler's steps are computed one after the
\* other, in the order the code runs them.
Done(st) == Len(st.log) >= 0

\* The entry that closes the entries of a call.
Returned(st, op, who) == Logged(st, Ev("return", who, op, 0))

SetErrorStatus(st, who, what) == Logged(st, Ev("SetErrorStatus", who, what, 0))

(***************************************************************************)
(* K4ADevice and K4AMicrophone, as the dock control uses them.             *)
(***************************************************************************)
NoConfig == [ color_format |-> "none", color_resolution |-> "OFF", depth_mode |-> "OFF",
              camera_fps |-> 0, synchronized_images_only |-> FALSE,
              depth_delay_off_color_usec |-> 0, wired_sync_mode |-> "STANDALONE",
              subordinate_delay_off_master_usec |-> 0,
              disable_streaming_indicator |-> FALSE ]

CamerasAreStarted(st) == st.dev.camerasStarted
ImuIsStarted(st) == st.dev.imuStarted

DeviceStopCameras(st) ==
    Logged([st EXCEPT !.dev.camerasStarted = FALSE], Ev("StopCameras", "device", "", 0))

DeviceStopImu(st) ==
    Logged([st EXCEPT !.dev.imuStarted = FALSE], Ev("StopImu", "device", "", 0))

MicrophoneStop(st) ==
    Logged([st EXCEPT !.mic.started = FALSE], Ev("Stop", "microphone", "", 0))

(***************************************************************************)
(* HasTimedOut(result, timeoutCounter): the returned flag and the counter  *)
(* as the call leaves it.                                                  *)
(***************************************************************************)
HasTimedOut_NoReset(result, timeoutCounter) ==
    IF result = "SUCCEEDED" THEN [ret |-> FALSE, timeoutCounter |-> timeoutCounter]
    ELSE IF result = "TIMEOUT"
         THEN IF timeoutCounter < MaxTimeoutCount
              THEN [ret |-> FALSE, timeoutCounter |-> timeoutCounter + 1]
              ELSE [ret |-> TRUE, timeoutCounter |-> timeoutCounter]
         ELSE [ret |-> TRUE, timeoutCounter |-> timeoutCounter]

HasTimedOut_OffByOne(result, timeoutCounter) ==
    IF result = "SUCCEEDED" THEN [ret |-> FALSE, timeoutCounter |-> 0]
    ELSE IF result = "TIMEOUT"
         THEN IF timeoutCounter < MaxTimeoutCount - 1
              THEN [ret |-> FALSE, timeoutCounter |-> timeoutCounter + 1]
              ELSE [ret |-> TRUE, timeoutCounter |-> timeoutCounter]
         ELSE [ret |-> TRUE, timeoutCounter |-> timeoutCounter]

HasTimedOut_FailCounts(result, timeoutCounter) ==
    IF result = "SUCCEEDED" THEN [ret |-> FALSE, timeoutCounter |-> 0]
    ELSE IF timeoutCounter < MaxTimeoutCount
         THEN [ret |-> FALSE, timeoutCounter |-> timeoutCounter + 1]
         ELSE [ret |-> TRUE, timeoutCounter |-> timeoutCounter]

HasTimedOut(result, timeoutCounter) ==
    IF result = "SUCCEEDED" THEN [ret |-> FALSE, timeoutCounter |-> 0]
    ELSE IF result = "TIMEOUT"
         THEN IF timeoutCounter < MaxTimeoutCount
              THEN [ret |-> FALSE, timeoutCounter |-> timeoutCounter + 1]
              ELSE [ret |-> TRUE, timeoutCounter |-> timeoutCounter]
         ELSE [ret |-> TRUE, timeoutCounter |-> timeoutCounter]

(***************************************************************************)
(* PollSensor<T>(device, sensorFriendlyName, pollFn, stopFn,               *)
(*               timeoutCounter, dataSource).                              *)
(* pollFn produces (pollStatus, data) by the device calls `calls'; the     *)
(* sensor name selects the counter, the stop function and the data source  *)
(* the caller passes.  The "PollSensor" entry records the counter on       *)
(* entry; the device calls of pollFn follow it, then the "pollFn" entry    *)
(* with what pollFn answered, then the calls PollSensor makes.             *)
(***************************************************************************)
TimeoutCounter(st, sensor) == IF sensor = "Cameras" THEN st.camCnt ELSE st.imuCnt

SetTimeoutCounter(st, sensor, n) ==
    IF sensor = "Cameras" THEN [st EXCEPT !.camCnt = n] ELSE [st EXCEPT !.imuCnt = n]

StopFn(st, sensor) == IF sensor = "Cameras" THEN DeviceStopCameras(st) ELSE DeviceStopImu(st)

NotifyObservers(st, sensor, data) == Logged(st, Ev("NotifyObservers", sensor, "", data))
NotifyTermination(st, sensor) == Logged(st, Ev("NotifyTermination", sensor, "", 0))

LoggedAll(st, entries) == [st EXCEPT !.log = @ \o entries]

PollSensor_TerminateFirst(st, sensor, calls, pollStatus, data) ==
    LET h == HasTimedOut(pollStatus, TimeoutCounter(st, sensor))
        s0 == Logged(LoggedAll(Logged(SetTimeoutCounter(st, sensor, h.timeoutCounter),
                                      Ev("PollSensor", sensor, "", TimeoutCounter(st, sensor))),
                               calls),
                     EvR("pollFn", sensor, "", data, pollStatus))
    IN  Returned(
            IF pollStatus = "SUCCEEDED" THEN NotifyObservers(s0, sensor, data)
            ELSE IF pollStatus = "TIMEOUT" /\ ~h.ret THEN s0
            ELSE SetErrorStatus(StopFn(NotifyTermination(s0, sensor), sensor), sensor,
                                IF pollStatus = "TIMEOUT" THEN "timed out!" ELSE "failed!"),
            "PollSensor", sensor)

PollSensor(st, sensor, calls, pollStatus, data) ==
    LET h == HasTimedOut(pollStatus, TimeoutCounter(st, sensor))
        s0 == Logged(LoggedAll(Logged(SetTimeoutCounter(st, sensor, h.timeoutCounter),
                                      Ev("PollSensor", sensor, "", TimeoutCounter(st, sensor))),
                               calls),
                     EvR("pollFn", sensor, "", data, pollStatus))
    IN  Returned(
            IF pollStatus = "SUCCEEDED" THEN NotifyObservers(s0, sensor, data)
            ELSE IF pollStatus = "TIMEOUT" /\ ~h.ret THEN s0
            ELSE LET s1 == SetErrorStatus(s0, sensor,
                                          IF pollStatus = "TIMEOUT" THEN "timed out!"
                                                                    ELSE "failed!")
                     s2 == StopFn(s1, sensor)
                 IN  NotifyTermination(s2, sensor),
            "PollSensor", sensor)

(***************************************************************************)
(* The poll functions of PollDevice.  The cameras' calls PollCameras once.  *)
(* The IMU's drains the queue: `queue' is what the successive              *)
(* device.PollImu calls deliver, `ending' the first non-success result;    *)
(* `result' holds the last sample written (0: never written), `calls' the  *)
(* PollImu calls made so far.                                              *)
(***************************************************************************)
CameraPollFn(status, capture) ==
    [ status |-> status, data |-> capture,
      calls |-> << EvR("PollCameras", "device", "", capture, status) >> ]

\* The drain that reports every non-success ending as it is.
RECURSIVE DrainImu_ReportsEnding(_, _, _, _, _)
DrainImu_ReportsEnding(queue, ending, gotSample, result, calls) ==
    IF queue # << >>
    THEN DrainImu_ReportsEnding(Tail(queue), ending, TRUE, Head(queue),
                                Append(calls, EvR("PollImu", "device", "", Head(queue), "SUCCEEDED")))
    ELSE [ status |-> ending, data |-> result,
           calls |-> Append(calls, EvR("PollImu", "device", "", 0, ending)) ]

RECURSIVE DrainImu(_, _, _, _, _)
DrainImu(queue, ending, gotSample, result, calls) ==
    IF queue # << >>
    THEN DrainImu(Tail(queue), ending, TRUE, Head(queue),
                  Append(calls, EvR("PollImu", "device", "", Head(queue), "SUCCEEDED")))
    ELSE [ status |-> IF gotSample /\ ending = "TIMEOUT" THEN "SUCCEEDED" ELSE ending,
           data |-> result,
           calls |-> Append(calls, EvR("PollImu", "device", "", 0, ending)) ]

ImuPollFn_ReportsEnding(queue, ending) ==
    DrainImu_ReportsEnding(queue, ending, FALSE, 0, << >>)

ImuPollFn(queue, ending) == DrainImu(queue, ending, FALSE, 0, << >>)

StopMicrophone(st) == IF st.mic.present THEN MicrophoneStop(st) ELSE st

(***************************************************************************)
(* PollDevice().  inp.camStatus/camData: what PollCameras answers;         *)
(* inp.imuQueue/imuEnding: what the PollImu calls answer.                  *)
(***************************************************************************)
StartedQuery(st, op, res) ==
    Logged(st, EvR(op, "device", "", 0, IF res THEN "true" ELSE "false"))

\* PollDevice() that stops every sensor when the microphone fails.
PollDevice_StopsAll(st, inp) ==
    LET s0 == StartedQuery(st, "CamerasAreStarted", CamerasAreStarted(st))
        c  == CameraPollFn(inp.camStatus, inp.camData)
        s1 == IF CamerasAreStarted(st)
              THEN PollSensor(s0, "Cameras", c.calls, c.status, c.data)
              ELSE s0
        p  == ImuPollFn(inp.imuQueue, inp.imuEnding)
        q  == StartedQuery(s1, "ImuIsStarted", ImuIsStarted(s1))
        s2 == IF ImuIsStarted(s1) THEN PollSensor(q, "IMU", p.calls, p.status, p.data) ELSE q
    IN  IF s2.mic.present /\ s2.mic.status # "SoundIoErrorNone"
        THEN StopMicrophone(DeviceStopImu(DeviceStopCameras(
                 SetErrorStatus(s2, "Microphone", "failed!"))))
        ELSE s2

PollDevice(st, inp) ==
    LET s0 == StartedQuery(st, "CamerasAreStarted", CamerasAreStarted(st))
        c  == CameraPollFn(inp.camStatus, inp.camData)
        s1 == IF CamerasAreStarted(st)
              THEN PollSensor(s0, "Cameras", c.calls, c.status, c.data)
              ELSE s0
        p  == ImuPollFn(inp.imuQueue, inp.imuEnding)
        q  == StartedQuery(s1, "ImuIsStarted", ImuIsStarted(s1))
        s2 == IF ImuIsStarted(s1) THEN PollSensor(q, "IMU", p.calls, p.status, p.data) ELSE q
    IN  IF s2.mic.present /\ s2.mic.status # "SoundIoErrorNone"
        THEN StopMicrophone(SetErrorStatus(s2, "Microphone", "failed!"))
        ELSE s2

(***************************************************************************)
(* Colour controls.                                                        *)
(***************************************************************************)
\* The order in which Show() draws the controls.
ShowOrder ==
    << "EXPOSURE_TIME_ABSOLUTE", "WHITEBALANCE", "BRIGHTNESS", "CONTRAST", "SATURATION",
       "SHARPNESS", "GAIN", "AUTO_EXPOSURE_PRIORITY", "BACKLIGHT_COMPENSATION",
       "POWERLINE_FREQUENCY" >>

\* The order in which ApplyDefaultColorSettings and LoadColorSettingsCache go
\* through the controls.
CacheOrder ==
    << "EXPOSURE_TIME_ABSOLUTE", "WHITEBALANCE", "AUTO_EXPOSURE_PRIORITY", "BRIGHTNESS",
       "CONTRAST", "SATURATION", "SHARPNESS", "BACKLIGHT_COMPENSATION", "GAIN",
       "POWERLINE_FREQUENCY" >>

Controls == { ShowOrder[i] : i \in 1..Len(ShowOrder) }

ColorSetting(mode, value) == [Mode |-> mode, Value |-> value]

\* The settings ApplyDefaultColorSettings hardcodes.
DefaultColorSetting(command) ==
    CASE command = "EXPOSURE_TIME_ABSOLUTE" -> ColorSetting("AUTO", 15625)
      [] command = "WHITEBALANCE"           -> ColorSetting("AUTO", 4500)
      [] command = "AUTO_EXPOSURE_PRIORITY" -> ColorSetting("MANUAL", 1)
      [] command = "BRIGHTNESS"             -> ColorSetting("MANUAL", 128)
      [] command = "CONTRAST"               -> ColorSetting("MANUAL", 5)
      [] command = "SATURATION"             -> ColorSetting("MANUAL", 32)
      [] command = "SHARPNESS"              -> ColorSetting("MANUAL", 2)
      [] command = "BACKLIGHT_COMPENSATION" -> ColorSetting("MANUAL", 0)
      [] command = "GAIN"                   -> ColorSetting("MANUAL", 0)
      [] command = "POWERLINE_FREQUENCY"    -> ColorSetting("MANUAL", 2)

\* A second value inside each widget's range: with the default value these are
\* the values the hardware holds and the widgets produce in the model.
OtherValue(command) ==
    CASE command = "EXPOSURE_TIME_ABSOLUTE" -> 33330
      [] command = "WHITEBALANCE"           -> 5000
      [] command = "AUTO_EXPOSURE_PRIORITY" -> 0
      [] command = "BRIGHTNESS"             -> 200
      [] command = "CONTRAST"               -> 7
      [] command = "SATURATION"             -> 40
      [] command = "SHARPNESS"              -> 3
      [] command = "BACKLIGHT_COMPENSATION" -> 1
      [] command = "GAIN"                   -> 100
      [] command = "POWERLINE_FREQUENCY"    -> 1

HardwareValues(command) == { DefaultColorSetting(command).Value, OtherValue(command) }

\* What the widget of a control reports when operated.  The white balance
\* slider moves in steps of 1, so it also produces 5005; a checkbox reports
\* that it was ticked.
WidgetValues(command) ==
    IF command = "WHITEBALANCE" THEN HardwareValues(command) \cup {5005}
    ELSE IF command \in {"AUTO_EXPOSURE_PRIORITY", "BACKLIGHT_COMPENSATION"} THEN {1}
    ELSE HardwareValues(command)

\* The value the hardware holds after it overrides a written value.
Overridden(command, value) ==
    IF value = OtherValue(command) THEN DefaultColorSetting(command).Value
    ELSE OtherValue(command)

Fault(command, kind) == [c |-> command, kind |-> kind]

\* m_device->SetColorControl(command, mode, value).  hwf: the faults of the
\* hardware in this frame.  A failed write leaves the hardware as it is; an
\* overriding hardware accepts the write and holds another value.
SetColorControl(st, command, mode, value, hwf) ==
    LET failed == Fault(command, "setFail") \in hwf
        s1 == Logged(st, EvR("SetColorControl", command, mode, value,
                             IF failed THEN "FAILED" ELSE "SUCCEEDED"))
    IN  IF failed
        THEN [st |-> s1, result |-> "FAILED"]
        ELSE [st |-> [s1 EXCEPT !.dev.color[command] =
                          ColorSetting(mode,
                                       IF Fault(command, "override") \in hwf
                                       THEN Overridden(command, value) ELSE value)],
              result |-> "SUCCEEDED"]

\* m_device->GetColorControl(command, mode&, value&): on success the two
\* outputs receive the hardware's setting, on failure they are not written.
GetColorControl(st, command, hwf) ==
    LET failed == Fault(command, "getFail") \in hwf
        s1 == Logged(st, EvR("GetColorControl", command, "", 0,
                             IF failed THEN "FAILED" ELSE "SUCCEEDED"))
    IN  IF failed
        THEN [st |-> s1, result |-> "FAILED", written |-> FALSE,
              setting |-> st.dev.color[command]]
        ELSE [st |-> [s1 EXCEPT !.lastRead[command] = st.dev.color[command]],
              result |-> "SUCCEEDED", written |-> TRUE,
              setting |-> st.dev.color[command]]

ReadColorSetting(st, command, hwf) ==
    LET g == GetColorControl(st, command, hwf)
        s1 == IF g.written THEN [g.st EXCEPT !.cache[command] = g.setting] ELSE g.st
    IN  IF g.result # "SUCCEEDED"
        THEN SetErrorStatus(s1, command, "Failed to read color parameter")
        ELSE s1

ApplyColorSetting_SkipReadOnFailure(st, command, hwf) ==
    LET s0 == Logged(st, Ev("ApplyColorSetting", command, st.cache[command].Mode,
                            st.cache[command].Value))
        w == SetColorControl(s0, command, st.cache[command].Mode,
                             st.cache[command].Value, hwf)
    IN  IF w.result # "SUCCEEDED"
        THEN SetErrorStatus(w.st, command, "Failed to adjust color parameter")
        ELSE ReadColorSetting(w.st, command, hwf)

ApplyColorSetting(st, command, hwf) ==
    LET s0 == Logged(st, Ev("ApplyColorSetting", command, st.cache[command].Mode,
                            st.cache[command].Value))
        w == SetColorControl(s0, command, st.cache[command].Mode,
                             st.cache[command].Value, hwf)
        s1 == IF w.result # "SUCCEEDED"
              THEN SetErrorStatus(w.st, command, "Failed to adjust color parameter")
              ELSE w.st
    IN  ReadColorSetting(s1, command, hwf)

RECURSIVE ApplyDefaultsFrom_KeepsBrightness(_, _, _)
ApplyDefaultsFrom_KeepsBrightness(st, i, hwf) ==
    IF i > Len(CacheOrder) THEN st
    ELSE LET command == CacheOrder[i]
             s1 == IF command = "BRIGHTNESS" THEN st
                   ELSE [st EXCEPT !.cache[command] = DefaultColorSetting(command)]
             s2 == ApplyColorSetting(s1, command, hwf)
         IN  IF Done(s2) THEN ApplyDefaultsFrom_KeepsBrightness(s2, i + 1, hwf) ELSE s2

RECURSIVE ApplyDefaultsFrom(_, _, _)
ApplyDefaultsFrom(st, i, hwf) ==
    IF i > Len(CacheOrder) THEN st
    ELSE LET command == CacheOrder[i]
             s1 == [st EXCEPT !.cache[command] = DefaultColorSetting(command)]
             s2 == ApplyColorSetting(s1, command, hwf)
         IN  IF Done(s2) THEN ApplyDefaultsFrom(s2, i + 1, hwf) ELSE s2

ApplyDefaultColorSettings(st, hwf) == ApplyDefaultsFrom(st, 1, hwf)

RECURSIVE LoadFrom(_, _, _)
LoadFrom(st, i, hwf) ==
    IF i > Len(CacheOrder) THEN st
    ELSE LET s1 == ReadColorSetting(st, CacheOrder[i], hwf)
         IN  IF Done(s1) THEN LoadFrom(s1, i + 1, hwf) ELSE s1

LoadColorSettingsCache(st, hwf) == LoadFrom(st, 1, hwf)

(***************************************************************************)
(* The showControl lambdas of Show().  ui: what the user does to the       *)
(* control's widgets in this frame: nothing, move the slider / tick the    *)
(* checkbox / pick the radio button ("value", with the widget's new value) *)
(* or press the A/M button ("auto").  The result is the action and the     *)
(* cache entry as the lambda leaves it.                                    *)
(***************************************************************************)
NoUi == [widget |-> "none", val |-> 0]

HasAutoButton(command) == command \in {"EXPOSURE_TIME_ABSOLUTE", "WHITEBALANCE"}
IsCheckbox(command) == command \in {"AUTO_EXPOSURE_PRIORITY", "BACKLIGHT_COMPENSATION"}

\* ShowColorControlAutoButton(currentMode, actionToUpdate, id).
ShowColorControlAutoButton(currentMode, action, pressed) ==
    IF ~pressed THEN action
    ELSE IF currentMode = "MANUAL" THEN "SetAutomatic" ELSE "SetManual"

ShowControl(command, cacheEntry, ui) ==
    IF HasAutoButton(command)
    THEN LET moved == ui.widget = "value" /\ cacheEntry.Mode = "MANUAL"
             value == IF ~moved THEN cacheEntry.Value
                      ELSE IF command = "WHITEBALANCE" THEN ui.val - (ui.val % 10)
                      ELSE ui.val
             result == IF moved THEN "SetManual" ELSE "None"
         IN  [ action |-> ShowColorControlAutoButton(cacheEntry.Mode, result,
                                                     ui.widget = "auto"),
               entry |-> [cacheEntry EXCEPT !.Value = value] ]
    ELSE IF ui.widget # "value" THEN [action |-> "None", entry |-> cacheEntry]
    ELSE IF IsCheckbox(command)
         THEN [ action |-> "SetManual",
                entry |-> [cacheEntry EXCEPT !.Value = IF @ = 0 THEN 1 ELSE 0] ]
         ELSE [ action |-> "SetManual", entry |-> [cacheEntry EXCEPT !.Value = ui.val] ]

ShowColorControl_AlwaysApply(st, command, ui, hwf) ==
    LET r == ShowControl(command, st.cache[command], ui)
        s1 == Logged([st EXCEPT !.cache[command] = r.entry],
                     EvR("showControl", command, "", 0, r.action))
        s2 == IF r.action = "SetManual" THEN [s1 EXCEPT !.cache[command].Mode = "MANUAL"]
              ELSE IF r.action = "SetAutomatic"
                   THEN [s1 EXCEPT !.cache[command].Mode = "AUTO"]
                   ELSE s1
    IN  ApplyColorSetting(s2, command, hwf)

ShowColorControl(st, command, ui, hwf) ==
    LET r == ShowControl(command, st.cache[command], ui)
        s1 == Logged([st EXCEPT !.cache[command] = r.entry],
                     EvR("showControl", command, "", 0, r.action))
    IN  IF r.action = "None" THEN s1
        ELSE LET s2 == IF r.action = "SetManual"
                       THEN [s1 EXCEPT !.cache[command].Mode = "MANUAL"]
                       ELSE IF r.action = "SetAutomatic"
                            THEN [s1 EXCEPT !.cache[command].Mode = "AUTO"]
                            ELSE s1
             IN  ApplyColorSetting(s2, command, hwf)

(***************************************************************************)
(* The pending configuration (K4ADeviceConfiguration) and the              *)
(* k4a_device_configuration_t made from it.                                *)
(***************************************************************************)
DepthModes == {"NFOV_2X2BINNED", "NFOV_UNBINNED", "WFOV_2X2BINNED", "WFOV_UNBINNED",
               "PASSIVE_IR"}
ColorFormats == {"MJPG", "BGRA32", "NV12", "YUY2"}
ColorResolutions == {"720P", "1080P", "1440P", "2160P", "1536P", "3072P"}
Framerates == {30, 15, 5}
WiredSyncModes == {"STANDALONE", "MASTER", "SUBORDINATE"}
ViewTypes == {"Normal", "PointCloudViewer"}

\* K4ADeviceConfiguration(): the member initialisers of the struct.
K4ADeviceConfiguration ==
    [ EnableColorCamera |-> TRUE, EnableDepthCamera |-> TRUE,
      ColorFormat |-> "MJPG", ColorResolution |-> "720P",
      DepthMode |-> "NFOV_UNBINNED", Framerate |-> 30,
      DepthDelayOffColorUsec |-> 0, WiredSyncMode |-> "STANDALONE",
      SubordinateDelayOffMasterUsec |-> 0, DisableStreamingIndicator |-> FALSE,
      SynchronizedImagesOnly |-> TRUE, EnableImu |-> TRUE, EnableMicrophone |-> TRUE ]

\* K4ADeviceConfiguration::ToK4ADeviceConfiguration().
ToK4ADeviceConfiguration(c) ==
    [ color_format |-> c.ColorFormat,
      color_resolution |-> IF c.EnableColorCamera THEN c.ColorResolution ELSE "OFF",
      depth_mode |-> IF c.EnableDepthCamera THEN c.DepthMode ELSE "OFF",
      camera_fps |-> c.Framerate,
      synchronized_images_only |-> c.SynchronizedImagesOnly,
      depth_delay_off_color_usec |-> c.DepthDelayOffColorUsec,
      wired_sync_mode |-> c.WiredSyncMode,
      subordinate_delay_off_master_usec |-> c.SubordinateDelayOffMasterUsec,
      disable_streaming_indicator |-> c.DisableStreamingIndicator ]

ApplyDefaultConfiguration(st) ==
    Logged([st EXCEPT !.cfg = st.saved], Ev("ApplyDefaultConfiguration", "", "", 0))

SaveDefaultConfiguration(st) ==
    Logged([st EXCEPT !.saved = st.cfg], Ev("SaveDefaultConfiguration", "", "", 0))

ResetDefaultConfiguration(st) ==
    SaveDefaultConfiguration(
        Logged([st EXCEPT !.cfg = K4ADeviceConfiguration],
               Ev("ResetDefaultConfiguration", "", "", 0)))

(***************************************************************************)
(* ImGui widgets.  A widget acts only in the frame in which the user       *)
(* clicks it, and a disabled widget never acts.                            *)
(***************************************************************************)
\* ImGuiExtensions::K4ACheckbox(label, &value, enabled)
K4ACheckbox(value, clicked, enabled) ==
    IF clicked /\ enabled THEN [changed |-> TRUE, value |-> ~value]
    ELSE [changed |-> FALSE, value |-> value]

\* A group of ImGuiExtensions::K4ARadioButton(label, &value, button, enabled)
\* on one variable: `clicked' tells whether the user clicks one of them,
\* `button' which one, `enabled' whether that one is enabled.
K4ARadioButton(value, clicked, button, enabled) ==
    IF clicked /\ enabled THEN [changed |-> TRUE, value |-> button]
    ELSE [changed |-> FALSE, value |-> value]

\* ImGuiExtensions::K4AInputScalar(label, type, &value, ..., enabled)
K4AInputScalar(value, clicked, typed, enabled) ==
    IF clicked /\ enabled THEN typed ELSE value

\* ImGui::SetNextTreeNodeOpen(open) followed by ImGui::TreeNode(label):
\* setNext is "none" when SetNextTreeNodeOpen was not called.  The stored
\* state is overridden by setNext and then toggled by a click on the node.
TreeNode(st, label, setNext, clicked) ==
    LET base == IF setNext = "none" THEN st.tree[label] ELSE setNext = "open"
        open == IF clicked THEN ~base ELSE base
    IN  [st EXCEPT !.tree[label] = open]

OpenIf(cond, open) == IF cond THEN (IF open THEN "open" ELSE "closed") ELSE "none"

TreeLabels == {"Depth Configuration", "Color Configuration", "Color Controls",
               "Internal Sync", "External Sync"}

DeviceIsStarted(st) ==
    CamerasAreStarted(st) \/ ImuIsStarted(st) \/ (st.mic.present /\ st.mic.started)

\* m_device->GetSyncCablesConnected(m_syncInConnected, m_syncOutConnected)
RefreshSyncCableStatus(st, inp) ==
    LET s1 == Logged(st, Ev("GetSyncCablesConnected", "device", "", 0))
    IN  IF inp.syncOk
        THEN [s1 EXCEPT !.syncIn = inp.cableIn, !.syncOut = inp.cableOut]
        ELSE SetErrorStatus(s1, "device", "Failed to read sync cable state!")

(***************************************************************************)
(* Show(), lines 314-362: the depth camera checkbox and tree node.         *)
(***************************************************************************)
ShowDepth(st, inp, deviceIsStarted) ==
    LET cb == K4ACheckbox(st.cfg.EnableDepthCamera, inp.click = "Enable Depth Camera",
                          ~deviceIsStarted)
        s1 == [st EXCEPT !.cfg.EnableDepthCamera = cb.value]
        s2 == TreeNode(s1, "Depth Configuration",
                       OpenIf(s1.firstRun \/ cb.changed, s1.cfg.EnableDepthCamera),
                       inp.click = "Depth Configuration")
    IN  IF ~s2.tree["Depth Configuration"] THEN s2
        ELSE LET editable == ~deviceIsStarted /\ s2.cfg.EnableDepthCamera
                 rb == K4ARadioButton(s2.cfg.DepthMode, inp.click = "Depth mode",
                                      inp.sval, editable)
                 s3 == [s2 EXCEPT !.cfg.DepthMode = rb.value]
                 depthModeUpdated == cb.changed \/ rb.changed
             IN  IF (depthModeUpdated \/ s3.firstRun) /\ s3.cfg.DepthMode = "WFOV_UNBINNED"
                 THEN [s3 EXCEPT !.cfg.Framerate = 15]
                 ELSE s3

(***************************************************************************)
(* Show(), lines 365-468: the colour camera checkbox and tree node.        *)
(***************************************************************************)
ShowColor(st, inp, deviceIsStarted) ==
    LET cb == K4ACheckbox(st.cfg.EnableColorCamera, inp.click = "Enable Color Camera",
                          ~deviceIsStarted)
        s1 == [st EXCEPT !.cfg.EnableColorCamera = cb.value]
        s2 == TreeNode(s1, "Color Configuration",
                       OpenIf(s1.firstRun \/ cb.changed, s1.cfg.EnableColorCamera),
                       inp.click = "Color Configuration")
    IN  IF ~s2.tree["Color Configuration"] THEN s2
        ELSE LET editable == ~deviceIsStarted /\ s2.cfg.EnableColorCamera
                 fmt == K4ARadioButton(s2.cfg.ColorFormat, inp.click = "Format",
                                       inp.sval, editable)
                 s3 == [s2 EXCEPT !.cfg.ColorFormat = fmt.value]
                 imageFormatSupportsHighResolution ==
                     s3.cfg.ColorFormat # "NV12" /\ s3.cfg.ColorFormat # "YUY2"
                 s4 == IF (fmt.changed \/ s3.firstRun) /\ ~imageFormatSupportsHighResolution
                       THEN [s3 EXCEPT !.cfg.ColorResolution = "720P"]
                       ELSE s3
                 res == K4ARadioButton(s4.cfg.ColorResolution, inp.click = "Resolution",
                                       inp.sval,
                                       IF inp.sval = "720P" THEN editable
                                       ELSE editable /\ imageFormatSupportsHighResolution)
                 s5 == [s4 EXCEPT !.cfg.ColorResolution = res.value]
                 colorResolutionUpdated == cb.changed \/ res.changed
             IN  IF (colorResolutionUpdated \/ s5.firstRun) /\ s5.cfg.ColorResolution = "3072P"
                 THEN [s5 EXCEPT !.cfg.Framerate = 15]
                 ELSE s5

(***************************************************************************)
(* Show(), lines 469-603: the colour controls tree node.                   *)
(***************************************************************************)
UiFor(inp, command) ==
    IF inp.click = "Color control" /\ inp.c = command
    THEN [widget |-> inp.sval, val |-> inp.ival]
    ELSE NoUi

RECURSIVE ShowColorControlsFrom(_, _, _)
ShowColorControlsFrom(st, i, inp) ==
    IF i > Len(ShowOrder) THEN st
    ELSE LET s1 == ShowColorControl(st, ShowOrder[i], UiFor(inp, ShowOrder[i]), inp.hwf)
         IN  IF Done(s1) THEN ShowColorControlsFrom(s1, i + 1, inp) ELSE s1

ShowColorControls(st, inp) ==
    LET s1 == TreeNode(st, "Color Controls", "none", inp.click = "Color Controls")
    IN  IF ~s1.tree["Color Controls"] THEN s1
        ELSE LET s2 == ShowColorControlsFrom(s1, 1, inp)
             IN  IF Done(s2) /\ inp.click = "Reset to default##RGB"
                 THEN ApplyDefaultColorSettings(
                          Logged(s2, Ev("ApplyDefaultColorSettings", "", "", 0)), inp.hwf)
                 ELSE s2

(***************************************************************************)
(* Show(), lines 606-644: framerate, streaming LED, IMU, microphone.       *)
(***************************************************************************)
ShowFramerate(st, inp, deviceIsStarted) ==
    LET supports30fps ==
            /\ ~(st.cfg.EnableColorCamera /\ st.cfg.ColorResolution = "3072P")
            /\ ~(st.cfg.EnableDepthCamera /\ st.cfg.DepthMode = "WFOV_UNBINNED")
        enableFramerate ==
            ~deviceIsStarted /\ (st.cfg.EnableColorCamera \/ st.cfg.EnableDepthCamera)
        rb == K4ARadioButton(st.cfg.Framerate, inp.click = "Framerate", inp.ival,
                             IF inp.ival = 30 THEN enableFramerate /\ supports30fps
                             ELSE enableFramerate)
        led == K4ACheckbox(st.cfg.DisableStreamingIndicator,
                           inp.click = "Disable streaming LED", ~deviceIsStarted)
        imu == K4ACheckbox(st.cfg.EnableImu, inp.click = "Enable IMU", ~deviceIsStarted)
        s1 == [st EXCEPT !.cfg.Framerate = rb.value,
                         !.cfg.DisableStreamingIndicator = led.value,
                         !.cfg.EnableImu = imu.value]
        synchronizedImagesAvailable ==
            s1.cfg.EnableColorCamera /\ s1.cfg.EnableDepthCamera
        s2 == [s1 EXCEPT !.cfg.SynchronizedImagesOnly = @ /\ synchronizedImagesAvailable]
    IN  IF s2.mic.present
        THEN [s2 EXCEPT !.cfg.EnableMicrophone =
                  K4ACheckbox(@, inp.click = "Enable Microphone", ~deviceIsStarted).value]
        ELSE [s2 EXCEPT !.cfg.EnableMicrophone = FALSE]

(***************************************************************************)
(* Show(), lines 648-716: the internal and external sync tree nodes.       *)
(***************************************************************************)
ShowInternalSync(st, inp, deviceIsStarted) ==
    LET synchronizedImagesAvailable ==
            st.cfg.EnableColorCamera /\ st.cfg.EnableDepthCamera
        s1 == TreeNode(st, "Internal Sync", "none", inp.click = "Internal Sync")
    IN  IF ~s1.tree["Internal Sync"] THEN s1
        ELSE [s1 EXCEPT
                 !.cfg.SynchronizedImagesOnly =
                     K4ACheckbox(@, inp.click = "Synchronized images only",
                                 ~deviceIsStarted /\ synchronizedImagesAvailable).value,
                 !.cfg.DepthDelayOffColorUsec =
                     K4AInputScalar(@, inp.click = "Depth delay (us)", inp.ival,
                                    ~deviceIsStarted)]

ShowExternalSync(st, inp, deviceIsStarted) ==
    LET s1 == TreeNode(st, "External Sync",
                       OpenIf(st.firstRun /\ (st.syncIn \/ st.syncOut), TRUE),
                       inp.click = "External Sync")
    IN  IF ~s1.tree["External Sync"] THEN s1
        ELSE LET s2 == IF inp.click = "Refresh" THEN RefreshSyncCableStatus(s1, inp) ELSE s1
                 syncModesSupported ==
                     /\ s2.syncIn \/ s2.syncOut
                     /\ s2.cfg.EnableColorCamera \/ s2.cfg.EnableDepthCamera
                 s3 == IF ~syncModesSupported
                       THEN [s2 EXCEPT !.cfg.WiredSyncMode = "STANDALONE"]
                       ELSE s2
             IN  [s3 EXCEPT
                     !.cfg.WiredSyncMode =
                         K4ARadioButton(@, inp.click = "Sync mode", inp.sval,
                                        IF inp.sval = "STANDALONE" THEN ~deviceIsStarted
                                        ELSE ~deviceIsStarted /\ syncModesSupported).value,
                     !.cfg.SubordinateDelayOffMasterUsec =
                         K4AInputScalar(@, inp.click = "Delay off master (us)", inp.ival,
                                        ~deviceIsStarted)]

(***************************************************************************)
(* Start, Stop and the view type.                                          *)
(***************************************************************************)
ClearWindows(st) == Logged(st, Ev("ClearWindows", "windows", "", 0))

StartCameras_FromSaved(st, inp) ==
    IF CamerasAreStarted(st) THEN st
    ELSE LET deviceConfig == ToK4ADeviceConfiguration(st.saved)
         IN  IF inp.camOk
             THEN Logged([st EXCEPT !.dev.camerasStarted = TRUE,
                                    !.dev.config = deviceConfig],
                         EvR("StartCameras", "device", "", 0, "SUCCEEDED"))
             ELSE SetErrorStatus(Logged(st, EvR("StartCameras", "device", "", 0, "FAILED")),
                                 "device", "Failed to start device!")

StartCameras(st, inp) ==
    IF CamerasAreStarted(st) THEN st
    ELSE LET deviceConfig == ToK4ADeviceConfiguration(st.cfg)
         IN  IF inp.camOk
             THEN Logged([st EXCEPT !.dev.camerasStarted = TRUE,
                                    !.dev.config = deviceConfig],
                         EvR("StartCameras", "device", "", 0, "SUCCEEDED"))
             ELSE SetErrorStatus(Logged(st, EvR("StartCameras", "device", "", 0, "FAILED")),
                                 "device", "Failed to start device!")

StartImu(st, inp) ==
    IF ImuIsStarted(st) THEN st
    ELSE IF inp.imuOk
         THEN Logged([st EXCEPT !.dev.imuStarted = TRUE],
                     EvR("StartImu", "device", "", 0, "SUCCEEDED"))
         ELSE SetErrorStatus(Logged(st, EvR("StartImu", "device", "", 0, "FAILED")),
                             "device", "Failed to start IMU!")

StartMicrophone(st, inp) ==
    IF ~st.mic.present
    THEN SetErrorStatus(st, "Microphone", "Failed to find microphone for device")
    ELSE IF st.mic.started THEN st
    ELSE IF inp.micOk
         THEN Logged([st EXCEPT !.mic.started = TRUE, !.mic.status = "SoundIoErrorNone"],
                     EvR("Start", "microphone", "", 0, "SUCCEEDED"))
         ELSE SetErrorStatus(Logged(st, EvR("Start", "microphone", "", 0, "FAILED")),
                             "Microphone", "Failed to start microphone")

SetViewType(st, viewType, inp) ==
    LET s1 == ClearWindows(st)
    IN  IF viewType = "Normal"
        THEN [Logged(s1, Ev("StartNormalWindows", "windows", "", 0))
                  EXCEPT !.view = viewType]
        ELSE LET s2 == Logged(s1, Ev("GetCalibrationTransformData", "device", "", 0))
             IN  IF ~inp.calibOk
                 THEN SetErrorStatus(s2, "device", "Failed to get calibration data!")
                 ELSE [Logged(s2, Ev("StartPointCloudWindow", "windows", "", 0))
                          EXCEPT !.view = viewType]

\* Start() that leaves m_paused as it was.
Start_KeepsPaused(st, inp) ==
    LET s0 == Logged(st, Ev("Start", "control", IF st.paused THEN "paused" ELSE "", 0))
        enableCameras == s0.cfg.EnableColorCamera \/ s0.cfg.EnableDepthCamera
        s1 == IF enableCameras THEN StartCameras(s0, inp) ELSE s0
        s2 == IF s1.cfg.EnableImu THEN StartImu(s1, inp) ELSE s1
        s3 == IF s2.cfg.EnableMicrophone THEN StartMicrophone(s2, inp) ELSE s2
    IN  SetViewType(s3, "Normal", inp)

\* The log entry of Start() records whether the control was paused on entry.
Start(st, inp) ==
    LET s0 == Logged(st, Ev("Start", "control", IF st.paused THEN "paused" ELSE "", 0))
        enableCameras == s0.cfg.EnableColorCamera \/ s0.cfg.EnableDepthCamera
        s1 == IF enableCameras THEN StartCameras(s0, inp) ELSE s0
        s2 == IF s1.cfg.EnableImu THEN StartImu(s1, inp) ELSE s1
        s3 == IF s2.cfg.EnableMicrophone THEN StartMicrophone(s2, inp) ELSE s2
    IN  [SetViewType(s3, "Normal", inp) EXCEPT !.paused = FALSE]

\* Stop() that leaves the IMU running.
Stop_KeepsImu(st) ==
    LET s0 == Logged(st, Ev("Stop", "control", "", 0))
    IN  StopMicrophone(DeviceStopCameras(ClearWindows(s0)))

Stop(st) ==
    LET s0 == Logged(st, Ev("Stop", "control", "", 0))
    IN  StopMicrophone(DeviceStopImu(DeviceStopCameras(ClearWindows(s0))))

\* K4AWindowSet::ShowModeSelector(&m_currentViewType, true,
\*                                pointCloudViewerAvailable, changeViewFn)
ShowModeSelector(st, inp, pointCloudViewerAvailable) ==
    LET rb == K4ARadioButton(st.view, inp.click = "View Mode", inp.sval,
                             IF inp.sval = "Normal" THEN TRUE
                             ELSE pointCloudViewerAvailable)
        s1 == [st EXCEPT !.view = rb.value]
    IN  IF rb.changed /\ st.view # rb.value THEN SetViewType(s1, rb.value, inp) ELSE s1

(***************************************************************************)
(* Show(), lines 741-801: Restore / Save / Reset, Start or Stop, the view  *)
(* selector, Pause / Resume.                                               *)
(***************************************************************************)
\* ShowButtons that draws the Start button also while the device is started.
ShowButtons_StartWhileStarted(st, inp, deviceIsStarted) ==
    LET s1 == IF inp.click = "Restore" /\ ~deviceIsStarted
              THEN ApplyDefaultConfiguration(st) ELSE st
        s2 == IF inp.click = "Save" /\ ~deviceIsStarted
              THEN SaveDefaultConfiguration(s1) ELSE s1
        s3 == IF inp.click = "Reset" /\ ~deviceIsStarted
              THEN ResetDefaultConfiguration(s2) ELSE s2
        enableCameras == s3.cfg.EnableColorCamera \/ s3.cfg.EnableDepthCamera
    IN  IF ~deviceIsStarted \/ inp.click = "Start"
        THEN LET validStartMode ==
                     enableCameras \/ s3.cfg.EnableMicrophone \/ s3.cfg.EnableImu
             IN  IF inp.click = "Start" /\ validStartMode THEN Start(s3, inp) ELSE s3
        ELSE LET s4 == IF inp.click = "Stop" THEN Stop(s3) ELSE s3
                 pointCloudViewerAvailable ==
                     /\ s4.cfg.EnableDepthCamera
                     /\ s4.cfg.DepthMode # "PASSIVE_IR"
                     /\ CamerasAreStarted(s4)
                 s5 == ShowModeSelector(s4, inp, pointCloudViewerAvailable)
             IN  IF s5.paused
                 THEN IF inp.click = "Resume" THEN [s5 EXCEPT !.paused = FALSE] ELSE s5
                 ELSE IF inp.click = "Pause" THEN [s5 EXCEPT !.paused = TRUE] ELSE s5

ShowButtons(st, inp, deviceIsStarted) ==
    LET s1 == IF inp.click = "Restore" /\ ~deviceIsStarted
              THEN ApplyDefaultConfiguration(st) ELSE st
        s2 == IF inp.click = "Save" /\ ~deviceIsStarted
              THEN SaveDefaultConfiguration(s1) ELSE s1
        s3 == IF inp.click = "Reset" /\ ~deviceIsStarted
              THEN ResetDefaultConfiguration(s2) ELSE s2
        enableCameras == s3.cfg.EnableColorCamera \/ s3.cfg.EnableDepthCamera
    IN  IF ~deviceIsStarted
        THEN LET validStartMode ==
                     enableCameras \/ s3.cfg.EnableMicrophone \/ s3.cfg.EnableImu
             IN  IF inp.click = "Start" /\ validStartMode THEN Start(s3, inp) ELSE s3
        ELSE LET s4 == IF inp.click = "Stop" THEN Stop(s3) ELSE s3
                 pointCloudViewerAvailable ==
                     /\ s4.cfg.EnableDepthCamera
                     /\ s4.cfg.DepthMode # "PASSIVE_IR"
                     /\ CamerasAreStarted(s4)
                 s5 == ShowModeSelector(s4, inp, pointCloudViewerAvailable)
             IN  IF s5.paused
                 THEN IF inp.click = "Resume" THEN [s5 EXCEPT !.paused = FALSE] ELSE s5
                 ELSE IF inp.click = "Pause" THEN [s5 EXCEPT !.paused = TRUE] ELSE s5

(***************************************************************************)
(* Show(): one UI frame.                                                   *)
(***************************************************************************)
Show_PollWhenPaused(st, inp) ==
    LET s0 == [st EXCEPT !.log = << Ev("Show", "control", "", 0) >>,
                         !.faults = @ + Cardinality(inp.hwf)]
    IN  IF inp.click = "Close device"
        THEN Logged([s0 EXCEPT !.docked = FALSE], Ev("PopDockControl", "windows", "", 0))
        ELSE LET deviceIsStarted == DeviceIsStarted(s0)
                 s1 == PollDevice(s0, inp)
                 s2 == ShowDepth(s1, inp, deviceIsStarted)
                 s3 == ShowColor(s2, inp, deviceIsStarted)
                 s4 == ShowColorControls(s3, inp)
                 s5 == ShowFramerate(s4, inp, deviceIsStarted)
                 s6 == ShowInternalSync(s5, inp, deviceIsStarted)
                 s7 == ShowExternalSync(s6, inp, deviceIsStarted)
                 s8 == ShowButtons(s7, inp, deviceIsStarted)
             IN  IF /\ Done(s1) /\ Done(s2) /\ Done(s3) /\ Done(s4)
                    /\ Done(s5) /\ Done(s6) /\ Done(s7)
                 THEN [s8 EXCEPT !.firstRun = FALSE]
                 ELSE s8

Show(st, inp) ==
    LET s0 == [st EXCEPT !.log = << Ev("Show", "control", "", 0) >>,
                         !.faults = @ + Cardinality(inp.hwf)]
    IN  IF inp.click = "Close device"
        THEN Logged([s0 EXCEPT !.docked = FALSE], Ev("PopDockControl", "windows", "", 0))
        ELSE LET deviceIsStarted == DeviceIsStarted(s0)
                 s1 == IF ~s0.paused THEN PollDevice(s0, inp) ELSE s0
                 s2 == ShowDepth(s1, inp, deviceIsStarted)
                 s3 == ShowColor(s2, inp, deviceIsStarted)
                 s4 == ShowColorControls(s3, inp)
                 s5 == ShowFramerate(s4, inp, deviceIsStarted)
                 s6 == ShowInternalSync(s5, inp, deviceIsStarted)
                 s7 == ShowExternalSync(s6, inp, deviceIsStarted)
                 s8 == ShowButtons(s7, inp, deviceIsStarted)
             IN  IF /\ Done(s1) /\ Done(s2) /\ Done(s3) /\ Done(s4)
                    /\ Done(s5) /\ Done(s6) /\ Done(s7)
                 THEN [s8 EXCEPT !.firstRun = FALSE]
                 ELSE s8

\* CloseDevice(): Stop() and release the device, once.
CloseDevice(st) ==
    IF st.dev.open THEN [Stop(st) EXCEPT !.dev.open = FALSE] ELSE st

\* ~K4ADeviceDockControl()
Destructor(st) ==
    CloseDevice(ClearWindows([st EXCEPT !.log = << Ev("~K4ADeviceDockControl", "control", "", 0) >>]))

(***************************************************************************)
(* The constructor: ApplyDefaultConfiguration, the microphone lookup,      *)
(* LoadColorSettingsCache, RefreshSyncCableStatus.                         *)
(* inp.hwf: the reads that fail while the cache is loaded; a cache entry   *)
(* whose read fails keeps what the memory held.                            *)
(***************************************************************************)
Constructor(st, inp) ==
    LET s0 == [st EXCEPT !.log = << Ev("K4ADeviceDockControl", "control", "", 0) >>,
                         !.faults = Cardinality(inp.hwf)]
        s1 == ApplyDefaultConfiguration(s0)
        s2 == LoadColorSettingsCache(
                  Logged(s1, Ev("LoadColorSettingsCache", "", "", 0)), inp.hwf)
    IN  RefreshSyncCableStatus(s2, inp)

NoRead == ColorSetting("none", -1)

\* The members and the environment before the constructor body runs.
Fresh(saved, micPresent, hardware, memory) ==
    [ cfg |-> K4ADeviceConfiguration, saved |-> saved, cache |-> memory,
      camCnt |-> 0, imuCnt |-> 0, paused |-> FALSE, firstRun |-> TRUE,
      view |-> "Normal", syncIn |-> FALSE, syncOut |-> FALSE,
      dev |-> [open |-> TRUE, camerasStarted |-> FALSE, imuStarted |-> FALSE,
               config |-> NoConfig, color |-> hardware],
      mic |-> [present |-> micPresent, started |-> FALSE, status |-> "SoundIoErrorNone"],
      tree |-> [l \in TreeLabels |-> FALSE], docked |-> TRUE,
      lastRead |-> [c \in Controls |-> NoRead], faults |-> 0, log |-> << >> ]

Installed(st) ==
    /\ m_pendingDeviceConfiguration = st.cfg
    /\ savedConfiguration = st.saved
    /\ m_colorSettingsCache = st.cache
    /\ m_cameraTimeoutCounter = st.camCnt
    /\ m_imuTimeoutCounter = st.imuCnt
    /\ m_paused = st.paused
    /\ m_firstRun = st.firstRun
    /\ m_currentViewType = st.view
    /\ m_syncInConnected = st.syncIn
    /\ m_syncOutConnected = st.syncOut
    /\ m_device = st.dev
    /\ m_microphone = st.mic
    /\ treeOpen = st.tree
    /\ docked = st.docked
    /\ lastRead = st.lastRead
    /\ faults = st.faults
    /\ log = st.log

(***************************************************************************)
(* The inputs of a frame: the user's click and the answers of the device.  *)
(***************************************************************************)
NoInput ==
    [ click |-> "none", sval |-> "", ival |-> 0, c |-> "",
      camStatus |-> "TIMEOUT", camData |-> 0, imuQueue |-> << >>, imuEnding |-> "TIMEOUT",
      hwf |-> {}, camOk |-> TRUE, imuOk |-> TRUE, micOk |-> TRUE, calibOk |-> TRUE,
      syncOk |-> TRUE, cableIn |-> FALSE, cableOut |-> FALSE ]

\* The two hardware states the model starts from: every control at its
\* default, or every control in manual mode at its other value.
DefaultHardware == [c \in Controls |-> DefaultColorSetting(c)]
OtherHardware == [c \in Controls |-> ColorSetting("MANUAL", OtherValue(c))]

\* A timeout is offered to a sensor while the other sensor's counter is low.
TimeoutOffered(otherCounter) == otherCounter <= MaxJointTimeouts

CameraAnswers(st) ==
    IF st.paused \/ ~st.dev.camerasStarted THEN { NoInput }
    ELSE { [NoInput EXCEPT !.camStatus = "SUCCEEDED", !.camData = d] : d \in Payloads }
         \cup { [NoInput EXCEPT !.camStatus = "FAILED"] }
         \cup (IF TimeoutOffered(st.imuCnt) THEN { NoInput } ELSE {})

\* The samples the IMU queued since the last frame are numbered 1..n.
ImuAnswers(st, base) ==
    IF st.paused \/ ~st.dev.imuStarted THEN { base }
    ELSE { [base EXCEPT !.imuQueue = [i \in 1..n |-> i], !.imuEnding = e] :
               n \in 1..MaxImuSamples, e \in {"TIMEOUT", "FAILED"} }
         \cup { [base EXCEPT !.imuEnding = "FAILED"] }
         \cup (IF TimeoutOffered(st.camCnt) THEN { base } ELSE {})

PollAnswers(st) == UNION { ImuAnswers(st, a) : a \in CameraAnswers(st) }

Simple(base, clicks) == { [base EXCEPT !.click = k] : k \in clicks }

StartInputs(base) ==
    { [base EXCEPT !.click = "Start", !.camOk = a, !.imuOk = b] : a, b \in BOOLEAN }

(***************************************************************************)
(* Actions.                                                                *)
(***************************************************************************)
\* One frame with input inp.
Frame(inp) == docked /\ \E st \in { Show(Cur, inp) } : Commit(st)

\* The window manager destroys the control it popped.
Destroy == ~docked /\ m_device.open /\ \E st \in { Destructor(Cur) } : Commit(st)

(***************************************************************************)
(* Streaming: the user starts, stops, pauses and resumes, and the sensors  *)
(* answer the polls in every way.                                          *)
(***************************************************************************)
\* The buttons Show() draws in the state st.
StreamingClicks(st, base) ==
    IF ~DeviceIsStarted(st) THEN StartInputs(base)
    ELSE Simple(base, {"Stop", IF st.paused THEN "Resume" ELSE "Pause"})

\* A timeout run is in its middle: the code compares the counter with
\* MaxTimeoutCount only, so the buttons are operated at the ends of a run.
Deep(counter) == MaxJointTimeouts + 1 < counter /\ counter < MaxTimeoutCount - 1

PollClicks(st, base) ==
    { base } \cup (IF Deep(st.camCnt) \/ Deep(st.imuCnt) THEN {}
                   ELSE StreamingClicks(st, base))

InitPoll ==
    Installed(Constructor(Fresh(K4ADeviceConfiguration, FALSE, DefaultHardware,
                                DefaultHardware), NoInput))

ShowPolling == \E a \in PollAnswers(Cur) : \E inp \in PollClicks(Cur, a) : Frame(inp)

NextPoll == ShowPolling

SpecPoll == InitPoll /\ [][NextPoll]_vars

(***************************************************************************)
(* Colour controls: the user opens the colour controls node, operates the  *)
(* widgets of the editable controls and resets to the defaults, while the  *)
(* hardware fails or overrides up to MaxFaults times.                      *)
(***************************************************************************)
\* The controls whose widgets are operated and whose hardware can fault:
\* one with a slider, rounding and an A/M button, a checkbox, then sliders.
EditOrder == << "WHITEBALANCE", "AUTO_EXPOSURE_PRIORITY", "BRIGHTNESS",
                "EXPOSURE_TIME_ABSOLUTE", "POWERLINE_FREQUENCY" >>

EditControls == { EditOrder[i] : i \in 1..NumEditable }

\* The hardware overrides a write it accepted: a write either fails or is
\* overridden.
FaultSets(controls, budget) ==
    { F \in SUBSET { Fault(c, k) : c \in controls, k \in {"setFail", "override", "getFail"} } :
          /\ Cardinality(F) <= budget
          /\ \A c \in controls : ~(Fault(c, "setFail") \in F /\ Fault(c, "override") \in F) }

WidgetClicks(command) ==
    { [NoInput EXCEPT !.click = "Color control", !.c = command, !.sval = "value",
                      !.ival = v] : v \in WidgetValues(command) }
    \cup (IF HasAutoButton(command)
          THEN { [NoInput EXCEPT !.click = "Color control", !.c = command,
                                 !.sval = "auto"] }
          ELSE {})

ColorInputs(st) ==
    { NoInput, [NoInput EXCEPT !.click = "Color Controls"] }
    \cup (IF ~st.tree["Color Controls"] THEN {}
          ELSE UNION { { [w EXCEPT !.hwf = F] :
                             w \in WidgetClicks(c),
                             F \in FaultSets({c}, MaxFaults - st.faults) } :
                       c \in EditControls }
               \cup { [NoInput EXCEPT !.click = "Reset to default##RGB", !.hwf = F] :
                          F \in FaultSets(EditControls, MaxFaults - st.faults) })

InitColor ==
    \E hardware \in {DefaultHardware, OtherHardware} :
      \E memory \in {DefaultHardware, OtherHardware} :
        \E F \in { G \in FaultSets(EditControls, 1) : \A f \in G : f.kind = "getFail" } :
          Installed(Constructor(Fresh(K4ADeviceConfiguration, FALSE, hardware, memory),
                                [NoInput EXCEPT !.hwf = F]))

ShowColorFrame == \E inp \in ColorInputs(Cur) : Frame(inp)

NextColor == ShowColorFrame

SpecColor == InitColor /\ [][NextColor]_vars

(***************************************************************************)
(* Configuration: the user edits the pending configuration, restores,      *)
(* saves and resets it, starts and stops the device, closes it.  The       *)
(* started sensors deliver data or fail; they do not time out here.        *)
(***************************************************************************)
ConfigAnswers(st) ==
    LET delivered == [NoInput EXCEPT !.camStatus = "SUCCEEDED", !.camData = 1,
                                     !.imuQueue = << 1 >>]
    IN  IF st.paused \/ ~DeviceIsStarted(st) THEN { NoInput }
        ELSE { delivered, [delivered EXCEPT !.camStatus = "FAILED", !.camData = 0] }

ConfigClicks(st, base) ==
    { base, [base EXCEPT !.click = "Close device"] }
    \cup (IF DeviceIsStarted(st) THEN { [base EXCEPT !.click = "Stop"] }
          ELSE Simple(base, {"Enable Depth Camera", "Enable IMU", "Enable Microphone",
                             "Restore", "Save", "Reset"})
               \cup { [base EXCEPT !.click = "Start", !.camOk = a, !.micOk = b] :
                          a, b \in BOOLEAN }
               \cup { [base EXCEPT !.click = "Framerate", !.ival = f] : f \in {30, 15} })

InitConfig ==
    \E micPresent \in BOOLEAN :
        Installed(Constructor(Fresh(K4ADeviceConfiguration, micPresent, DefaultHardware,
                                    DefaultHardware), NoInput))

ShowConfigFrame == \E a \in ConfigAnswers(Cur) : \E inp \in ConfigClicks(Cur, a) : Frame(inp)

NextConfig == ShowConfigFrame \/ Destroy

SpecConfig == InitConfig /\ [][NextConfig]_vars

(***************************************************************************)
(* Reading the log of a frame: the PollSensor calls and what each did.     *)
(***************************************************************************)
PollCalls == { i \in 1..Len(log) : log[i].op = "PollSensor" }

ReturnOf(i) ==
    CHOOSE j \in (i + 1)..Len(log) :
        /\ log[j].op = "return" /\ log[j].who = log[i].who /\ log[j].mode = log[i].op
        /\ \A k \in (i + 1)..(j - 1) : log[k].op # "return"

SensorOf(i) == log[i].who
CounterOnEntry(i) == log[i].val
\* The entry with what the poll function of call i answered.
PollFnOf(i) ==
    CHOOSE j \in (i + 1)..Len(log) :
        log[j].op = "pollFn" /\ \A k \in (i + 1)..(j - 1) : log[k].op # "pollFn"
PollStatusOf(i) == log[PollFnOf(i)].res
PolledData(i) == log[PollFnOf(i)].val
\* The calls PollSensor made after pollFn answered.
Effects(i) == SubSeq(log, PollFnOf(i) + 1, ReturnOf(i) - 1)

CounterNow(sensor) ==
    IF sensor = "Cameras" THEN m_cameraTimeoutCounter ELSE m_imuTimeoutCounter

FatalEffects(sensor, what) ==
    << Ev("SetErrorStatus", sensor, what, 0),
       Ev(IF sensor = "Cameras" THEN "StopCameras" ELSE "StopImu", "device", "", 0),
       Ev("NotifyTermination", sensor, "", 0) >>

\* C1: a poll that SUCCEEDED leaves the sensor's counter at 0 and makes exactly
\* one call, NotifyObservers with the polled payload: no error status, no stop,
\* no termination.
C1_SuccessResetsAndNotifies ==
    \A i \in PollCalls :
        PollStatusOf(i) = "SUCCEEDED" =>
            /\ CounterNow(SensorOf(i)) = 0
            /\ Effects(i) = << Ev("NotifyObservers", SensorOf(i), "", PolledData(i)) >>

C1_Witness ==
    \E i \in PollCalls :
        PollStatusOf(i) = "SUCCEEDED" /\ CounterOnEntry(i) > 1 /\ PolledData(i) = 2

\* C2 as claimed: a TIMEOUT increments the counter, and is fatal exactly when
\* the counter then exceeds 120.
C2_Claimed ==
    \A i \in PollCalls :
        PollStatusOf(i) = "TIMEOUT" =>
            /\ CounterNow(SensorOf(i)) = CounterOnEntry(i) + 1
            /\ IF CounterNow(SensorOf(i)) > 120
               THEN Effects(i) = FatalEffects(SensorOf(i), "timed out!")
               ELSE Effects(i) = << >>

\* C2 amended: a TIMEOUT met with a counter below 120 increments it and makes
\* no call at all; a TIMEOUT met with the counter at 120 leaves it at 120 and
\* is fatal (error status, stopFn, termination).  The counter never exceeds 120.
C2_TimeoutThreshold ==
    /\ m_cameraTimeoutCounter \in 0..120
    /\ m_imuTimeoutCounter \in 0..120
    /\ \A i \in PollCalls :
          PollStatusOf(i) = "TIMEOUT" =>
              IF CounterOnEntry(i) < 120
              THEN /\ CounterNow(SensorOf(i)) = CounterOnEntry(i) + 1
                   /\ Effects(i) = << >>
              ELSE /\ CounterNow(SensorOf(i)) = 120
                   /\ Effects(i) = FatalEffects(SensorOf(i), "timed out!")

C2_Witness ==
    \E i \in PollCalls :
        /\ PollStatusOf(i) = "TIMEOUT" /\ CounterOnEntry(i) = 120
        /\ Effects(i) = FatalEffects(SensorOf(i), "timed out!")

\* C3: a poll that neither SUCCEEDED nor timed out takes the fatal path in the
\* same call whatever the counter is, and leaves the counter as it was.
C3_FailureIsFatalAtOnce ==
    \A i \in PollCalls :
        PollStatusOf(i) \notin {"SUCCEEDED", "TIMEOUT"} =>
            /\ Effects(i) = FatalEffects(SensorOf(i), "failed!")
            /\ CounterNow(SensorOf(i)) = CounterOnEntry(i)

C3_Witness ==
    /\ \E i \in PollCalls : PollStatusOf(i) = "FAILED" /\ CounterOnEntry(i) = 0
    /\ \E i \in PollCalls : PollStatusOf(i) = "FAILED" /\ CounterOnEntry(i) > 0

IsFatalCall(e) == e.op \in {"SetErrorStatus", "StopCameras", "StopImu", "NotifyTermination"}

\* C4: a PollSensor call that makes any call of the fatal path makes exactly
\* three calls, in this order: SetErrorStatus naming the sensor, the sensor's
\* stop on the device, NotifyTermination on the sensor's data source; it never
\* notifies observers of data.
C4_FatalPathOrder ==
    \A i \in PollCalls :
        (\E k \in 1..Len(Effects(i)) : IsFatalCall(Effects(i)[k])) =>
            /\ Len(Effects(i)) = 3
            /\ Effects(i)[1].op = "SetErrorStatus" /\ Effects(i)[1].who = SensorOf(i)
            /\ Effects(i)[2].op = (IF SensorOf(i) = "Cameras" THEN "StopCameras"
                                                               ELSE "StopImu")
            /\ Effects(i)[2].who = "device"
            /\ Effects(i)[3].op = "NotifyTermination" /\ Effects(i)[3].who = SensorOf(i)

C4_Witness ==
    \E i \in PollCalls :
        /\ SensorOf(i) = "IMU"
        /\ Len(Effects(i)) = 3 /\ Effects(i)[3].op = "NotifyTermination"

(***************************************************************************)
(* Reading the log of a frame: the colour-control calls.                   *)
(***************************************************************************)
IsFrame(s) == Len(s) > 0 /\ s[1].op = "Show"
ApplyCalls(s) == { i \in 1..Len(s) : s[i].op = "ApplyColorSetting" }
HardwareAccess(s, command) ==
    { i \in 1..Len(s) : s[i].op \in {"SetColorControl", "GetColorControl"}
                        /\ s[i].who = command }

\* C5: every ApplyColorSetting call writes the cache entry's mode and value
\* with SetColorControl, sets an error status if the write failed, and then
\* reads the same command back with GetColorControl, failed write or not; a
\* frame makes one write and one read per ApplyColorSetting call, and a read
\* that succeeded leaves the hardware's setting in that cache entry.
C5_ApplyWritesThenReadsBack ==
    /\ \A i \in ApplyCalls(log) :
          LET r == IF log[i + 1].res = "FAILED" THEN i + 3 ELSE i + 2
          IN  /\ log[i + 1] = EvR("SetColorControl", log[i].who, log[i].mode, log[i].val,
                                  log[i + 1].res)
              /\ log[i + 1].res = "FAILED" =>
                     log[i + 2] = Ev("SetErrorStatus", log[i].who,
                                     "Failed to adjust color parameter", 0)
              /\ r <= Len(log)
              /\ log[r].op = "GetColorControl" /\ log[r].who = log[i].who
              /\ log[r].res = "SUCCEEDED" =>
                     m_colorSettingsCache[log[i].who] = m_device.color[log[i].who]
    /\ IsFrame(log) =>
          \A c \in Controls :
              /\ Cardinality(EventsOf(log, "SetColorControl", c))
                     = Cardinality(EventsOf(log, "ApplyColorSetting", c))
              /\ Cardinality(EventsOf(log, "GetColorControl", c))
                     = Cardinality(EventsOf(log, "ApplyColorSetting", c))

C5_Witness ==
    \E i \in ApplyCalls(log) :
        /\ log[i + 1].res = "FAILED"
        /\ log[i + 3].op = "GetColorControl" /\ log[i + 3].res = "SUCCEEDED"
        /\ m_colorSettingsCache[log[i].who] # ColorSetting(log[i].mode, log[i].val)

\* C6 as claimed: every cache entry holds the setting most recently read back
\* from the hardware for its control.
C6_Claimed ==
    \A c \in Controls :
        lastRead[c] # NoRead => m_colorSettingsCache[c] = lastRead[c]

\* C7: in a frame, the hardware is accessed for a control only if the control's
\* widget reported SetManual or SetAutomatic or the defaults were applied; a
\* control whose widget reported None, in a frame that does not apply the
\* defaults, has no hardware access and keeps its cached mode.
C7_Step ==
    LET accessed == { log'[i].who : i \in { j \in 1..Len(log') :
                          log'[j].op \in {"SetColorControl", "GetColorControl"} } }
        acted == { log'[i].who : i \in { j \in 1..Len(log') :
                       /\ log'[j].op = "showControl"
                       /\ log'[j].res \in {"SetManual", "SetAutomatic"} } }
        idle == { log'[i].who : i \in { j \in 1..Len(log') :
                      log'[j].op = "showControl" /\ log'[j].res = "None" } }
    IN  IsFrame(log') =>
            IF Events(log', "ApplyDefaultColorSettings") # {} THEN accessed = Controls
            ELSE /\ accessed = acted
                 /\ idle \cap acted = {}
                 /\ \A c \in idle :
                        m_colorSettingsCache'[c].Mode = m_colorSettingsCache[c].Mode

\* C7: every step satisfies C7_Step: no hardware access for a control without an
\* action reported by its widget or a reset to the defaults.
C7_NoActionNoHardwareAccess == [][C7_Step]_vars

C7_Witness ==
    /\ IsFrame(log)
    /\ \E c \in Controls :
          /\ \E i \in EventsOf(log, "showControl", c) : log[i].res = "None"
          /\ HardwareAccess(log, c) = {}
    /\ \E c \in Controls :
          /\ \E i \in EventsOf(log, "showControl", c) : log[i].res = "SetAutomatic"
          /\ HardwareAccess(log, c) # {}

RECURSIVE Written(_)
Written(s) ==
    IF s = << >> THEN << >>
    ELSE IF Head(s).op = "SetColorControl"
         THEN << << Head(s).who, Head(s).mode, Head(s).val >> >> \o Written(Tail(s))
         ELSE Written(Tail(s))

\* C8: a frame that applies the defaults writes exactly these ten settings,
\* one per control, whatever the cache and the hardware held and did before.
C8_DefaultsWritten ==
    Events(log, "ApplyDefaultColorSettings") # {} =>
        Written(log) =
            << << "EXPOSURE_TIME_ABSOLUTE", "AUTO", 15625 >>,
               << "WHITEBALANCE", "AUTO", 4500 >>,
               << "AUTO_EXPOSURE_PRIORITY", "MANUAL", 1 >>,
               << "BRIGHTNESS", "MANUAL", 128 >>,
               << "CONTRAST", "MANUAL", 5 >>,
               << "SATURATION", "MANUAL", 32 >>,
               << "SHARPNESS", "MANUAL", 2 >>,
               << "BACKLIGHT_COMPENSATION", "MANUAL", 0 >>,
               << "GAIN", "MANUAL", 0 >>,
               << "POWERLINE_FREQUENCY", "MANUAL", 2 >> >>

C8_Witness ==
    /\ Events(log, "ApplyDefaultColorSettings") # {}
    /\ \E i \in Events(log, "SetColorControl") : log[i].res = "FAILED"
    /\ \E c \in Controls : m_colorSettingsCache[c] # DefaultColorSetting(c)
    /\ m_device.color["BRIGHTNESS"] = DefaultColorSetting("BRIGHTNESS")

(***************************************************************************)
(* Reading the log of a frame: starting the sensors.                       *)
(***************************************************************************)
StartRequests(s) ==
    { i \in 1..Len(s) : \/ s[i].op \in {"StartCameras", "StartImu"}
                        \/ s[i].op = "Start" /\ s[i].who = "microphone" }
StartCalls(s) == EventsOf(s, "Start", "control")

\* C9: a start request reaches the device or the microphone only inside
\* Start(); cameras that Start() started run with the configuration made from
\* the pending configuration as it is then; a step without Start() starts no
\* sensor and leaves the device's configuration as it was.
C9_Step ==
    /\ \A i \in StartRequests(log') : \E j \in StartCalls(log') : j < i
    /\ (\E i \in Events(log', "StartCameras") : log'[i].res = "SUCCEEDED") =>
           m_device'.config = ToK4ADeviceConfiguration(m_pendingDeviceConfiguration')
    /\ StartCalls(log') = {} =>
           /\ m_device'.config = m_device.config
           /\ m_device'.camerasStarted => m_device.camerasStarted
           /\ m_device'.imuStarted => m_device.imuStarted
           /\ m_microphone'.started => m_microphone.started

\* C9: every step satisfies C9_Step: the pending configuration reaches the
\* device only inside Start().
C9_AppliedOnlyOnStart == [][C9_Step]_vars

C9_Witness ==
    /\ \E i \in Events(log, "StartCameras") : log[i].res = "SUCCEEDED"
    /\ \E i \in EventsOf(log, "Start", "microphone") : log[i].res = "SUCCEEDED"
    /\ m_pendingDeviceConfiguration # savedConfiguration
    /\ savedConfiguration # K4ADeviceConfiguration
    /\ m_device.config = ToK4ADeviceConfiguration(m_pendingDeviceConfiguration)

(***************************************************************************)
(* Polling once per frame.                                                 *)
(***************************************************************************)
PollsOf(s, sensor) == Cardinality(EventsOf(s, "PollSensor", sensor))
Notifications(s) ==
    { i \in 1..Len(s) : s[i].op \in {"NotifyObservers", "NotifyTermination"} }
Closed(s) == Events(s, "PopDockControl") # {}

C10_Polling ==
    /\ ~m_paused =>
           /\ PollsOf(log', "Cameras") = (IF m_device.camerasStarted THEN 1 ELSE 0)
           /\ PollsOf(log', "IMU") = (IF m_device.imuStarted THEN 1 ELSE 0)
    /\ m_paused =>
           /\ PollsOf(log', "Cameras") = 0 /\ PollsOf(log', "IMU") = 0
           /\ m_cameraTimeoutCounter' = m_cameraTimeoutCounter
           /\ m_imuTimeoutCounter' = m_imuTimeoutCounter
           /\ Notifications(log') = {}

\* C10 as claimed: a frame that is not closed polls each started channel once
\* when not paused and none when paused, and a paused frame leaves the
\* counters, the sensors' started state and the data sources untouched.
C10_ClaimedStep ==
    (IsFrame(log') /\ ~Closed(log')) =>
        /\ C10_Polling
        /\ m_paused => /\ m_device'.camerasStarted = m_device.camerasStarted
                       /\ m_device'.imuStarted = m_device.imuStarted

\* C10 as claimed: every step satisfies C10_ClaimedStep.
C10_Claimed == [][C10_ClaimedStep]_vars

\* C10 amended: ... and a paused frame leaves the counters and the data
\* sources untouched; it changes the sensors' started state only when the
\* user presses Stop or Start in it.
C10_Step ==
    (IsFrame(log') /\ ~Closed(log')) =>
        /\ C10_Polling
        /\ (m_paused /\ StartCalls(log') = {} /\ EventsOf(log', "Stop", "control") = {}) =>
               /\ m_device'.camerasStarted = m_device.camerasStarted
               /\ m_device'.imuStarted = m_device.imuStarted

\* C10 amended: every step satisfies C10_Step: one poll per started channel in
\* a frame that is not paused, none in a paused frame.
C10_PolledOncePerFrame == [][C10_Step]_vars

C10_Witness ==
    /\ IsFrame(log) /\ m_paused
    /\ Events(log, "CamerasAreStarted") = {}
    /\ m_device.camerasStarted /\ m_device.imuStarted
    /\ m_cameraTimeoutCounter > 0

(***************************************************************************)
(* Framerate: the settings file holds one of four configurations, with     *)
(* the depth camera enabled or not; the user enables and disables the      *)
(* colour camera, opens and closes the cameras' tree nodes, picks depth    *)
(* mode, colour resolution and framerate, restores, saves and resets,      *)
(* starts and stops.                                                       *)
(***************************************************************************)
\* What K4AViewerSettingsManager loaded from the settings file.
SavedConfigurations ==
    { K4ADeviceConfiguration,
      [K4ADeviceConfiguration EXCEPT !.DepthMode = "WFOV_UNBINNED"],
      [K4ADeviceConfiguration EXCEPT !.ColorResolution = "3072P"],
      [K4ADeviceConfiguration EXCEPT !.ColorResolution = "3072P",
                                     !.EnableDepthCamera = FALSE] }

FramerateClicks(st) ==
    LET delivered == [NoInput EXCEPT !.camStatus = "SUCCEEDED", !.camData = 1,
                                     !.imuQueue = << 1 >>]
    IN  IF DeviceIsStarted(st) THEN Simple(delivered, {"none", "Stop"})
        ELSE Simple(NoInput, {"none", "Enable Color Camera",
                              "Depth Configuration", "Color Configuration",
                              "Restore", "Save", "Reset", "Start"})
             \cup { [NoInput EXCEPT !.click = "Depth mode", !.sval = d] :
                        d \in {"NFOV_UNBINNED", "WFOV_UNBINNED"} }
             \cup { [NoInput EXCEPT !.click = "Resolution", !.sval = r] :
                        r \in {"720P", "3072P"} }
             \cup { [NoInput EXCEPT !.click = "Framerate", !.ival = f] : f \in {30, 15} }

InitFramerate ==
    \E saved \in SavedConfigurations :
        Installed(Constructor(Fresh(saved, FALSE, DefaultHardware, DefaultHardware),
                              NoInput))

ShowFramerateFrame == \E inp \in FramerateClicks(Cur) : Frame(inp)

NextFramerate == ShowFramerateFrame

SpecFramerate == InitFramerate /\ [][NextFramerate]_vars

\* The configuration combines 30 FPS with the depth camera in WFOV unbinned
\* mode or with the colour camera at 3072p.
Over15Fps(config) ==
    /\ config.camera_fps = 30
    /\ config.depth_mode = "WFOV_UNBINNED" \/ config.color_resolution = "3072P"

\* C11 as claimed: started cameras never run a configuration that combines
\* 30 FPS with WFOV unbinned depth or 3072p colour, for any saved configuration.
C11_Claimed == m_device.camerasStarted => ~Over15Fps(m_device.config)

(***************************************************************************)
(* External sync: the sync cable is connected or not when the control is   *)
(* constructed and each time the user presses Refresh; the user opens and  *)
(* closes the "External Sync" node, chooses a sync mode, toggles the       *)
(* cameras, restores, saves and resets the configuration, starts, stops.   *)
(***************************************************************************)
SyncClicks(st) ==
    LET delivered == [NoInput EXCEPT !.camStatus = "SUCCEEDED", !.camData = 1,
                                     !.imuQueue = << 1 >>]
        refresh(base) == { [base EXCEPT !.click = "Refresh", !.cableIn = b] : b \in BOOLEAN }
    IN  IF DeviceIsStarted(st)
        THEN Simple(delivered, {"none", "Stop", "External Sync"}) \cup refresh(delivered)
        ELSE Simple(NoInput, {"none", "External Sync", "Enable Depth Camera",
                              "Enable Color Camera", "Restore", "Save", "Reset", "Start"})
             \cup refresh(NoInput)
             \cup { [NoInput EXCEPT !.click = "Sync mode", !.sval = m] :
                        m \in {"STANDALONE", "MASTER", "SUBORDINATE"} }

InitSync ==
    \E connected \in BOOLEAN :
        Installed(Constructor(Fresh(K4ADeviceConfiguration, FALSE, DefaultHardware,
                                    DefaultHardware),
                              [NoInput EXCEPT !.cableIn = connected]))

ShowSyncFrame == \E inp \in SyncClicks(Cur) : Frame(inp)

NextSync == ShowSyncFrame

SpecSync == InitSync /\ [][NextSync]_vars

\* The cameras were started in this frame.
CamerasStartedNow ==
    \E i \in 1..Len(log) : log[i].op = "StartCameras" /\ log[i].res = "SUCCEEDED"

\* C12 as claimed: the wired sync mode the cameras are started with is
\* Standalone unless a sync cable was last read as connected and the colour
\* or the depth camera is enabled.
C12_Claimed ==
    CamerasStartedNow =>
        \/ m_device.config.wired_sync_mode = "STANDALONE"
        \/ /\ m_syncInConnected \/ m_syncOutConnected
           /\ \/ m_pendingDeviceConfiguration.EnableColorCamera
              \/ m_pendingDeviceConfiguration.EnableDepthCamera

(***************************************************************************)
(* Buttons: in every frame the user may press any of Start, Stop, Pause,   *)
(* Resume and the view selector, toggle the sensors' checkboxes or close   *)
(* the device; a button the frame does not draw or draws disabled does     *)
(* nothing.  The started sensors deliver data or fail, the cameras time    *)
(* out a few times, and the microphone's stream may report an error at     *)
(* any time.                                                               *)
(***************************************************************************)
Delivered == [NoInput EXCEPT !.camStatus = "SUCCEEDED", !.camData = 1, !.imuQueue = << 1 >>]

\* The answers of a frame in which a sensor fails or the cameras time out.
ButtonFailures(st) ==
    IF st.paused \/ ~DeviceIsStarted(st) THEN {}
    ELSE { [Delivered EXCEPT !.camStatus = "FAILED", !.camData = 0],
           [Delivered EXCEPT !.imuQueue = << >>, !.imuEnding = "FAILED"] }
         \cup (IF st.camCnt <= MaxJointTimeouts
               THEN { [Delivered EXCEPT !.camStatus = "TIMEOUT", !.camData = 0] }
               ELSE {})

ButtonClicks(base) ==
    Simple(base, {"none", "Stop", "Pause", "Resume", "Close device",
                  "Enable Depth Camera", "Enable Color Camera", "Enable IMU",
                  "Enable Microphone"})
    \cup { [base EXCEPT !.click = "Start", !.camOk = a, !.imuOk = b, !.micOk = c] :
               a, b, c \in BOOLEAN }
    \cup { [base EXCEPT !.click = "View Mode", !.sval = v, !.calibOk = ok] :
               v \in ViewTypes, ok \in BOOLEAN }

\* Every click in a frame in which the started sensors deliver; the clicks
\* that matter to a started device in a frame in which one fails.
ButtonInputs(st) ==
    ButtonClicks(Delivered)
    \cup UNION { Simple(a, {"none", "Stop", "Pause"}) : a \in ButtonFailures(st) }

InitButtons ==
    \E micPresent \in BOOLEAN :
        Installed(Constructor(Fresh(K4ADeviceConfiguration, micPresent, DefaultHardware,
                                    DefaultHardware), NoInput))

ShowButtonsFrame == \E inp \in ButtonInputs(Cur) : Frame(inp)

\* The microphone's stream reports an error (K4AMicrophone::GetStatusCode()
\* no longer answers SoundIoErrorNone).
MicrophoneError ==
    /\ docked /\ m_microphone.present /\ m_microphone.started
    /\ m_microphone.status = "SoundIoErrorNone"
    /\ m_microphone' = [m_microphone EXCEPT !.status = "SoundIoErrorStreaming"]
    /\ log' = << Ev("error", "microphone", "SoundIoErrorStreaming", 0) >>
    /\ UNCHANGED << m_pendingDeviceConfiguration, savedConfiguration, m_colorSettingsCache,
                    m_cameraTimeoutCounter, m_imuTimeoutCounter, m_paused, m_firstRun,
                    m_currentViewType, m_syncInConnected, m_syncOutConnected, m_device,
                    treeOpen, docked, lastRead, faults >>

NextButtons == ShowButtonsFrame \/ MicrophoneError \/ Destroy

SpecButtons == InitButtons /\ [][NextButtons]_vars

RequestsTo(s, op, who) == Cardinality(EventsOf(s, op, who))
Requested(enabled) == IF enabled THEN 1 ELSE 0

\* C13: a frame in which Start() ran sent one start request to the cameras
\* exactly when the pending configuration enables the colour or the depth
\* camera, one to the IMU exactly when it enables the IMU, one to the
\* microphone exactly when it enables the microphone; it then set the view to
\* Normal (windows cleared, normal windows started, after the requests) and
\* left the control not paused, whether or not it was paused and whether or
\* not the requests succeeded.
C13_StartRequestsWhatIsEnabled ==
    StartCalls(log) # {} =>
        /\ Cardinality(StartCalls(log)) = 1
        /\ RequestsTo(log, "StartCameras", "device") =
               Requested(\/ m_pendingDeviceConfiguration.EnableColorCamera
                         \/ m_pendingDeviceConfiguration.EnableDepthCamera)
        /\ RequestsTo(log, "StartImu", "device") =
               Requested(m_pendingDeviceConfiguration.EnableImu)
        /\ RequestsTo(log, "Start", "microphone") =
               Requested(m_pendingDeviceConfiguration.EnableMicrophone)
        /\ \E w \in EventsOf(log, "StartNormalWindows", "windows") :
               \A r \in StartRequests(log) : r < w
        /\ m_currentViewType = "Normal"
        /\ ~m_paused

\* Start() ran in a paused control with the microphone disabled, and the IMU
\* refused to start.
C13_Witness ==
    /\ \E i \in StartCalls(log) : log[i].mode = "paused"
    /\ \E j \in EventsOf(log, "StartImu", "device") : log[j].res = "FAILED"
    /\ \E j \in EventsOf(log, "StartCameras", "device") : log[j].res = "SUCCEEDED"
    /\ ~m_pendingDeviceConfiguration.EnableMicrophone
    /\ m_microphone.present

\* A sensor is started.
SomeSensorStarted ==
    \/ m_device.camerasStarted \/ m_device.imuStarted
    \/ m_microphone.present /\ m_microphone.started

\* The view selector acted: the windows were rebuilt outside Start(), or the
\* view type changed.
ViewSelected(s) ==
    Events(s, "StartNormalWindows") \cup Events(s, "GetCalibrationTransformData") # {}

C14_Step ==
    IsFrame(log') =>
        /\ StartCalls(log') # {} =>
               /\ ~SomeSensorStarted
               /\ \/ m_pendingDeviceConfiguration'.EnableColorCamera
                  \/ m_pendingDeviceConfiguration'.EnableDepthCamera
                  \/ m_pendingDeviceConfiguration'.EnableImu
                  \/ m_pendingDeviceConfiguration'.EnableMicrophone
        /\ EventsOf(log', "StartCameras", "device") # {} => ~m_device.camerasStarted
        /\ EventsOf(log', "StartImu", "device") # {} => ~m_device.imuStarted
        /\ EventsOf(log', "Start", "microphone") # {} => ~m_microphone.started
        /\ EventsOf(log', "Stop", "control") # {} => SomeSensorStarted
        /\ (StartCalls(log') = {} /\ m_paused' # m_paused) => SomeSensorStarted
        /\ (StartCalls(log') = {} /\ ViewSelected(log')) => SomeSensorStarted
        /\ (StartCalls(log') = {} /\ m_currentViewType' # m_currentViewType)
               => SomeSensorStarted

\* C14: Start() runs only in a frame at whose beginning no sensor was started
\* and whose pending configuration enables a sensor; no start request goes to
\* a sensor that is started; Stop(), Pause / Resume and the view selector act
\* only in a frame at whose beginning a sensor was started.
C14_ButtonsFollowStartedState == [][C14_Step]_vars

\* Stop() ran in a frame whose poll had already stopped the only started
\* sensor: the cameras failed, the IMU and the microphone were not started.
C14_Witness ==
    /\ IsFrame(log)
    /\ \E p \in EventsOf(log, "PollSensor", "Cameras") :
       \E f \in EventsOf(log, "StopCameras", "device") :
       \E t \in EventsOf(log, "Stop", "control") : p < f /\ f < t
    /\ EventsOf(log, "ImuIsStarted", "device") # {}
    /\ \A i \in EventsOf(log, "ImuIsStarted", "device") : log[i].res = "false"
    /\ ~m_microphone.present

StopCalls(s) == EventsOf(s, "Stop", "control")

\* What Stop() called at entry i of s does: the next entries of s are
\* ClearWindows, StopCameras, StopImu and, with a microphone, its Stop.
StopSequence(s, i, withMicrophone) ==
    /\ Len(s) >= i + (IF withMicrophone THEN 4 ELSE 3)
    /\ s[i + 1].op = "ClearWindows"
    /\ s[i + 2].op = "StopCameras"
    /\ s[i + 3].op = "StopImu"
    /\ withMicrophone => s[i + 4].op = "Stop" /\ s[i + 4].who = "microphone"
    /\ EventsOf(s, "Stop", "microphone") \cap (i..Len(s)) =
           (IF withMicrophone THEN { i + 4 } ELSE {})

C15_Step ==
    /\ StopCalls(log') # {} =>
           /\ \A i \in StopCalls(log') : StopSequence(log', i, m_microphone.present)
           /\ ~m_device'.camerasStarted /\ ~m_device'.imuStarted
           /\ ~m_microphone'.started
           /\ ~DeviceIsStarted(Cur)'
    /\ (StopCalls(log) # {} /\ IsFrame(log')) =>
           Events(log', "PollSensor") \cup Events(log', "pollFn") = {}
    /\ log'[1].op = "~K4ADeviceDockControl" =>
           /\ m_device.open /\ ~m_device'.open
           /\ Cardinality(StopCalls(log')) = 1
    /\ ~m_device'.open => CloseDevice(Cur)' = Cur'

\* C15: Stop() clears the windows, then stops the cameras, the IMU and, if
\* there is one, the microphone; after it no sensor is started, DeviceIsStarted
\* is false and the next frame polls nothing; CloseDevice runs this Stop()
\* once, and CloseDevice on a closed device changes nothing.
C15_StopStopsEverything == [][C15_Step]_vars

\* Stop() ran in a frame in which the cameras and the IMU had both just
\* delivered, with a microphone present.
C15_Witness ==
    /\ IsFrame(log)
    /\ \E t \in StopCalls(log) :
           /\ \E n \in EventsOf(log, "NotifyObservers", "Cameras") : n < t
           /\ \E n \in EventsOf(log, "NotifyObservers", "IMU") : n < t
    /\ m_microphone.present

\* The device was closed after Stop() had run in the destructor.
C15_Closed == ~m_device.open /\ StopCalls(log) # {}

\* The device.PollImu calls of IMU poll i, in order.
ImuCallsOf(i) == SubSeq(log, i + 1, PollFnOf(i) - 1)
Samples(calls) == { k \in 1..Len(calls) : calls[k].res = "SUCCEEDED" }

\* C16: the IMU poll calls device.PollImu until a call does not succeed.  It
\* reports SUCCEEDED exactly when a sample was obtained and the last call
\* timed out; then the last sample obtained, and no other, is notified and
\* the IMU timeout counter is 0.  Otherwise it reports the result of the
\* last call, and no sample is notified.
C16_ImuDrain ==
    \A i \in PollCalls : SensorOf(i) = "IMU" =>
        LET calls == ImuCallsOf(i)
            n == Len(calls) - 1
            ending == calls[Len(calls)].res
        IN  /\ Len(calls) >= 1
            /\ \A k \in 1..Len(calls) : calls[k].op = "PollImu"
            /\ Samples(calls) = 1..n
            /\ ending \in {"TIMEOUT", "FAILED"}
            /\ PollStatusOf(i) = "SUCCEEDED" <=> (n >= 1 /\ ending = "TIMEOUT")
            /\ PollStatusOf(i) = "SUCCEEDED" =>
                   /\ Effects(i) = << Ev("NotifyObservers", "IMU", "", calls[n].val) >>
                   /\ m_imuTimeoutCounter = 0
            /\ PollStatusOf(i) # "SUCCEEDED" =>
                   /\ PollStatusOf(i) = ending
                   /\ \A e \in 1..Len(Effects(i)) : Effects(i)[e].op # "NotifyObservers"

\* An IMU poll obtained two samples before the queue ran dry, after a
\* timeout had been counted.
C16_Witness ==
    \E i \in PollCalls :
        /\ SensorOf(i) = "IMU" /\ CounterOnEntry(i) > 0
        /\ Len(ImuCallsOf(i)) = 3 /\ PollStatusOf(i) = "SUCCEEDED"

\* An IMU poll obtained a sample and then failed.
C16_FailureAfterSample ==
    \E i \in PollCalls :
        /\ SensorOf(i) = "IMU"
        /\ Len(ImuCallsOf(i)) >= 2 /\ PollStatusOf(i) = "FAILED"

\* Where s reports the microphone's failure.
MicrophoneFailures(s) ==
    { e \in EventsOf(s, "SetErrorStatus", "Microphone") : s[e].mode = "failed!" }

\* The counter PollSensor leaves to a sensor whose poll function answered as s
\* records, and the unchanged counter of a sensor s did not poll.
CounterAfter(s, sensor, counter) ==
    IF EventsOf(s, "pollFn", sensor) = {} THEN counter
    ELSE HasTimedOut(s[CHOOSE j \in EventsOf(s, "pollFn", sensor) : TRUE].res,
                     counter).timeoutCounter

C17_Step ==
    ( /\ IsFrame(log') /\ ~Closed(log') /\ ~m_paused
      /\ m_microphone.present /\ m_microphone.status # "SoundIoErrorNone" ) =>
        /\ \E e \in MicrophoneFailures(log') :
               /\ MicrophoneFailures(log') = { e }
               /\ log'[e + 1] = Ev("Stop", "microphone", "", 0)
               /\ \A i \in Events(log', "PollSensor") \cup Events(log', "return") : i < e
               /\ \A t \in StopCalls(log') \cup StartCalls(log') : e < t
               /\ \A f \in Events(log', "StopCameras") \cup Events(log', "StopImu") :
                      f < e \/ \E t \in StopCalls(log') : t < f
               /\ EventsOf(log', "Start", "microphone") = {} => ~m_microphone'.started
        /\ (Events(log', "StopCameras") = {} /\ StartCalls(log') = {}) =>
               m_device'.camerasStarted = m_device.camerasStarted
        /\ (Events(log', "StopImu") = {} /\ StartCalls(log') = {}) =>
               m_device'.imuStarted = m_device.imuStarted
        /\ EventsOf(log', "PollSensor", "Cameras") # {} <=> m_device.camerasStarted
        /\ EventsOf(log', "PollSensor", "IMU") # {} <=> m_device.imuStarted
        /\ m_cameraTimeoutCounter' = CounterAfter(log', "Cameras", m_cameraTimeoutCounter)
        /\ m_imuTimeoutCounter' = CounterAfter(log', "IMU", m_imuTimeoutCounter)

\* C17: a frame that is not paused and finds the microphone with an error
\* status sets an error status and stops the microphone, after the polls;
\* it stops no other sensor, and the cameras and the IMU are started and
\* their timeout counters are as their own polls leave them.
C17_MicrophoneFailureStopsMicrophoneOnly == [][C17_Step]_vars

\* The microphone's failure was handled in a frame in which the cameras
\* timed out once more and stayed started, as did the IMU.
C17_Witness ==
    /\ IsFrame(log)
    /\ \E e \in MicrophoneFailures(log) : log[e + 1] = Ev("Stop", "microphone", "", 0)
    /\ m_device.camerasStarted /\ m_device.imuStarted
    /\ m_cameraTimeoutCounter > 1
    /\ ~m_microphone.started

\* Start() started the sensor in this frame.
StartedNow(op) == \E i \in EventsOf(log, op, "device") : log[i].res = "SUCCEEDED"

\* C18 as claimed: a sensor that Start() has started begins its session with
\* no timeout counted against it, so that it tolerates MaxTimeoutCount
\* consecutive timeouts whatever happened before the session.
C18_Claimed ==
    /\ StartedNow("StartCameras") => m_cameraTimeoutCounter = 0
    /\ StartedNow("StartImu") => m_imuTimeoutCounter = 0

\* The cameras are started again after a session that ended with a fatal
\* timeout: the first timeout of the new session will be fatal.
C18_RestartAfterFatalTimeout ==
    StartedNow("StartCameras") /\ m_cameraTimeoutCounter = MaxTimeoutCount
====
